---- MODULE Spec2Model ----
(***************************************************************************)
(* Halftone Studio, Electron main process: the local process bridge.       *)
(* The main process spawns one Python worker (cli_bridge.py), reads its    *)
(* stdout as newline-delimited JSON, and serialises the renderer's         *)
(* commands to the worker's stdin one at a time (sendToBridge,             *)
(* processQueue, and the handlers installed by startBridge).  Before the   *)
(* spawn, startup looks for a Python/pip pair (findPythonAndPip) and       *)
(* installs the missing packages (ensureDependencies, ensureCairoMac).     *)
(*                                                                         *)
(* Requests are identified by their submission number 1, 2, ...; the       *)
(* payload of request r is r.  Text is a sequence of characters; a JSON    *)
(* object is written as the two characters LB (its opening part) and a     *)
(* BODY character (the rest of the object, carrying its fields), so that a *)
(* chunk boundary can fall inside an object.                               *)
(***************************************************************************)
EXTENDS Integers, Sequences, FiniteSets, TLC

\* ---------------------------------------------------------------- bounds
MaxReq == 3
MaxLines == 3

ReqIds == 1..MaxReq

\* ------------------------------------------------------------ characters
NoText == "<absent>"
ErrTexts == {"boom", ""}

NoMsg == [status |-> "none", ok |-> "none", error |-> NoText, re |-> 0]

Char(t, m) == [t |-> t, m |-> m]
NL == Char("nl", NoMsg)
SP == Char("sp", NoMsg)
LB == Char("lb", NoMsg)
BODY(m) == Char("body", m)

\* The messages of the wire protocol (cli_bridge.py's output lines).
ReadyMsg == [status |-> "ready", ok |-> "none", error |-> NoText, re |-> 0]
ResultMsg(c) == [status |-> "none", ok |-> "true", error |-> NoText, re |-> c]
BareMsg(c) == [status |-> "none", ok |-> "none", error |-> NoText, re |-> c]
FailureMsg(c, e) == [status |-> "none", ok |-> "false", error |-> e, re |-> c]

Line(m) == <<LB, BODY(m)>>

\* ------------------------------------------------------ promise outcomes
Pending == [st |-> "pending", err |-> "", msg |-> NoMsg]
Resolved(m) == [st |-> "resolved", err |-> "", msg |-> m]
Rejected(e) == [st |-> "rejected", err |-> e, msg |-> NoMsg]
RejectedBy(e, m) == [st |-> "rejected", err |-> e, msg |-> m]

VARIABLES
  platform,         \* process.platform
  appQuit,          \* the application has quit
  mainWindow,       \* a renderer window exists
  bridgeProcess,    \* "null", or the child-process handle (its command)
  bridgeReady,
  pendingRequests,  \* requests issued before the bridge is ready
  requestQueue,     \* sequential command queue
  currentRequest,   \* 0 (null) or the request in flight
  buffer,           \* the stdout handler's incomplete tail
  workerState,      \* "none", "running", "exited" (exit event due), "reaped"
  stdinWritable,    \* bridgeProcess.stdin.writable
  stdoutPipe,       \* text the worker wrote that no data event delivered yet
  written,          \* the commands written to the worker's stdin, in order
  workerRead,       \* how many of them the worker has answered
  emitted,          \* how many lines the worker has written
  conforms,         \* the worker has kept to the wire protocol so far
  reply,            \* reply[r]: the message the worker produced for command r
  outcome,          \* outcome[r]: the state of request r's promise
  settleCalls,      \* settleCalls[r]: calls of r's resolve or reject
  nextId,           \* the number of the next request to be submitted
  sentStopped,      \* the requests submitted after the exit handler ran
  readySeen,        \* a {status: "ready"} line has been consumed
  consumed,         \* (SpecFramer) all text delivered by data events so far
  parsedLog,        \* (SpecFramer) the lines handed to JSON.parse so far
  splitSeen,        \* (SpecFramer) a JSON object arrived split between two chunks
  quitting,         \* app.quit() was called: the before-quit handler has run
  startPc,          \* where the app.whenReady handler stands (its await points)
  locEnv,           \* what the commands run by findPythonAndPip answer
  found,            \* the value findPythonAndPip returned
  checkOutput,      \* the output of the import probe script
  pipNames,         \* the pip names of the missing packages
  pipLog,           \* the pip install commands spawned by runPip, in order
  brewLog,          \* the "brew install cairo" commands spawned, in order
  progressWin,      \* "none", "open", "closing" (close() called), "closed"
  cairoWin,         \* the same, for ensureCairoMac's progress window
  dialogs,          \* the titles of the dialogs shown so far
  depsResult,       \* the value ensureDependencies returned
  createdWindows,   \* the windows created so far
  cairoOutcome,     \* how ensureCairoMac ended
  cairoEnv          \* what "brew list cairo", the lookup of brew and the user answered

vars == <<platform, appQuit, mainWindow, bridgeProcess, bridgeReady,
          pendingRequests, requestQueue, currentRequest, buffer, workerState,
          stdinWritable, stdoutPipe, written, workerRead, emitted, conforms,
          reply, outcome, settleCalls, nextId, sentStopped, readySeen,
          consumed, parsedLog, splitSeen, quitting, startPc, locEnv, found,
          checkOutput, pipNames, pipLog, brewLog, progressWin, cairoWin,
          dialogs, depsResult, createdWindows, cairoOutcome, cairoEnv>>

\* ---------------------------------------------------- text: split, trim
RECURSIVE Split(_)
\* String.prototype.split("\n")
Split(s) ==
  IF s = <<>> THEN << <<>> >>
  ELSE LET rest == Split(Tail(s))
       IN IF Head(s) = NL THEN << <<>> >> \o rest
          ELSE << <<Head(s)>> \o Head(rest) >> \o Tail(rest)

Last(s) == s[Len(s)]
Front(s) == SubSeq(s, 1, Len(s) - 1)

RECURSIVE TrimLeft(_)
TrimLeft(s) == IF s # <<>> /\ Head(s) = SP THEN TrimLeft(Tail(s)) ELSE s
RECURSIVE TrimRight(_)
TrimRight(s) == IF s # <<>> /\ Last(s) = SP THEN TrimRight(Front(s)) ELSE s
\* String.prototype.trim()
Trim(s) == TrimRight(TrimLeft(s))

\* JSON.parse(line): the object the text denotes, or a SyntaxError.  Leading and
\* trailing whitespace is allowed by the JSON grammar.
JSONparse(line) ==
  LET t == Trim(line)
  IN IF Len(t) = 2 /\ t[1] = LB /\ t[2].t = "body"
       THEN [threw |-> FALSE, value |-> t[2].m]
       ELSE [threw |-> TRUE, value |-> NoMsg]

\* ------------------------------------------------- the dispatcher's state
\* The handlers run to completion; their effect on the module-level state is
\* computed on a record of that state.
Dispatcher ==
  [bridgeReady |-> bridgeReady, pendingRequests |-> pendingRequests,
   requestQueue |-> requestQueue, currentRequest |-> currentRequest,
   written |-> written, outcome |-> outcome, settleCalls |-> settleCalls,
   readySeen |-> readySeen, parsedLog |-> parsedLog]

\* resolve(v) / reject(e) of request r: a promise settles once.
Settle(d, r, o) ==
  [d EXCEPT !.outcome[r] = IF @.st = "pending" THEN o ELSE @,
            !.settleCalls[r] = @ + 1]

\* Variant: the bridge is taken to be running whatever the handle is.
BridgeRunningAlways == TRUE

\* bridgeProcess && bridgeProcess.stdin.writable
BridgeRunning == bridgeProcess # "null" /\ stdinWritable

RECURSIVE processQueue(_)
\* Variant: processQueue without its "if (currentRequest) return" guard.
processQueueNoBusyCheck(d) ==
  IF Len(d.requestQueue) = 0 THEN d
  ELSE LET r == Head(d.requestQueue)
           d1 == [d EXCEPT !.currentRequest = r, !.requestQueue = Tail(@)]
       IN IF ~BridgeRunning
            THEN processQueue([Settle(d1, r, Rejected("Bridge not running"))
                                 EXCEPT !.currentRequest = 0])
            ELSE [d1 EXCEPT !.written = Append(@, r)]

processQueue(d) ==
  IF d.currentRequest # 0 THEN d
  ELSE IF Len(d.requestQueue) = 0 THEN d
  ELSE LET r == Head(d.requestQueue)
           d1 == [d EXCEPT !.currentRequest = r, !.requestQueue = Tail(@)]
       IN IF ~BridgeRunning
            THEN processQueue([Settle(d1, r, Rejected("Bridge not running"))
                                 EXCEPT !.currentRequest = 0])
            ELSE [d1 EXCEPT !.written = Append(@, r)]

\* Variant: the flush takes the buffered requests from the back (pop, not shift).
FlushPendingReversed(d) ==
  [d EXCEPT !.requestQueue =
              @ \o [i \in 1..Len(d.pendingRequests) |->
                      d.pendingRequests[Len(d.pendingRequests) + 1 - i]],
            !.pendingRequests = <<>>]

\* while (pendingRequests.length) requestQueue.push(pendingRequests.shift())
FlushPending(d) ==
  [d EXCEPT !.requestQueue = @ \o d.pendingRequests,
            !.pendingRequests = <<>>]

\* Variant: the rejection carries a fixed message, not msg.error.
ErrorMessageGeneric(m) == "Bridge error"

\* new Error(msg.error || "Bridge error")
ErrorMessage(m) ==
  IF m.error = NoText \/ m.error = "" THEN "Bridge error" ELSE m.error

\* Variant: the catch block rejects the request in flight but leaves it in
\* currentRequest.
CatchBranchKeepsSlot(d, e) ==
  IF d.currentRequest # 0
    THEN Settle(d, d.currentRequest, Rejected(e))
    ELSE d

\* Variant: a parse failure fails the whole queue, not only the request in flight.
CatchBranchRejectsQueue(d, e) ==
  IF d.currentRequest # 0
    THEN LET d1 == Settle(d, d.currentRequest, Rejected(e))
             RejectAll[i \in 0..Len(d.requestQueue)] ==
               IF i = 0 THEN d1
               ELSE Settle(RejectAll[i - 1], d.requestQueue[i], Rejected(e))
         IN [RejectAll[Len(d.requestQueue)]
               EXCEPT !.currentRequest = 0, !.requestQueue = <<>>]
    ELSE d

\* The catch block of the stdout handler.
CatchBranch(d, e) ==
  IF d.currentRequest # 0
    THEN processQueue([Settle(d, d.currentRequest, Rejected(e))
                         EXCEPT !.currentRequest = 0])
    ELSE d

\* Variant: the response branch settles without calling processQueue().
ResponseBranchNoAdvance(d, msg) ==
  IF msg.status = "ready"
    THEN processQueue(FlushPending([d EXCEPT !.bridgeReady = TRUE,
                                             !.readySeen = TRUE]))
  ELSE IF d.currentRequest # 0
    THEN LET r == d.currentRequest
             d1 == [d EXCEPT !.currentRequest = 0]
         IN IF msg.ok = "false"
              THEN Settle(d1, r, RejectedBy(ErrorMessage(msg), msg))
              ELSE Settle(d1, r, Resolved(msg))
  ELSE d

\* Variant: the response branch resolves whatever msg.ok says.
ResponseBranchIgnoresOk(d, msg) ==
  IF msg.status = "ready"
    THEN processQueue(FlushPending([d EXCEPT !.bridgeReady = TRUE,
                                             !.readySeen = TRUE]))
  ELSE IF d.currentRequest # 0
    THEN processQueue(Settle([d EXCEPT !.currentRequest = 0],
                             d.currentRequest, Resolved(msg)))
  ELSE d

\* The try block, once JSON.parse has returned msg.
ResponseBranch(d, msg) ==
  IF msg.status = "ready"
    THEN processQueue(FlushPending([d EXCEPT !.bridgeReady = TRUE,
                                             !.readySeen = TRUE]))
  ELSE IF d.currentRequest # 0
    THEN LET r == d.currentRequest
             d1 == [d EXCEPT !.currentRequest = 0]
         IN IF msg.ok = "false"
              THEN processQueue(Settle(d1, r, RejectedBy(ErrorMessage(msg), msg)))
              ELSE processQueue(Settle(d1, r, Resolved(msg)))
  ELSE d

\* Variant: the loop without its "if (!line.trim()) continue".
HandleLineParsesBlank(d, line) ==
  LET p == JSONparse(line)
      d1 == [d EXCEPT !.parsedLog = Append(@, line)]
  IN IF p.threw THEN CatchBranch(d1, "SyntaxError")
     ELSE ResponseBranch(d1, p.value)

\* One iteration of "for (const line of lines)".
HandleLine(d, line) ==
  IF Trim(line) = <<>> THEN d
  ELSE LET p == JSONparse(line)
           d1 == [d EXCEPT !.parsedLog = Append(@, line)]
       IN IF p.threw THEN CatchBranch(d1, "SyntaxError")
          ELSE ResponseBranch(d1, p.value)

RECURSIVE HandleLines(_, _)
HandleLines(d, lines) ==
  IF lines = <<>> THEN d
  ELSE HandleLines(HandleLine(d, Head(lines)), Tail(lines))

\* Variant: the incomplete tail is not kept for the next chunk.
FrameTailDropped(buf, chunk) == <<>>

\* buffer += chunk; lines = buffer.split("\n"); buffer = lines.pop()
FrameLines(buf, chunk) == Front(Split(buf \o chunk))
FrameTail(buf, chunk) == Last(Split(buf \o chunk))

SetDispatcher(d) ==
  /\ bridgeReady' = d.bridgeReady
  /\ pendingRequests' = d.pendingRequests
  /\ requestQueue' = d.requestQueue
  /\ currentRequest' = d.currentRequest
  /\ written' = d.written
  /\ outcome' = d.outcome
  /\ settleCalls' = d.settleCalls
  /\ readySeen' = d.readySeen

\* findPythonAndPip returned null / ensureDependencies has not returned.
NoPair == [pythonCmd |-> "null", pipCmd |-> "null", pipArgs |-> <<>>]
NoResult == [returned |-> FALSE, ok |-> FALSE, pythonCmd |-> "null"]
NoCairoEnv == [listed |-> FALSE, brewPath |-> "unset", choice |-> 1]
NoEnv == [none |-> TRUE]

\* ---------------------------------------------------- runtime discovery
\* An external command that was executed, and whether it succeeded.
Ran(cmd, args, ok) == [cmd |-> cmd, args |-> args, ok |-> ok]

Pair(python, pipCmd, pipArgs) ==
  [pythonCmd |-> python, pipCmd |-> pipCmd, pipArgs |-> pipArgs]

\* const pythonCandidates, ordered best-first
PythonCandidates(plat) ==
  IF plat = "win32" THEN <<"python", "python3", "py">>
  ELSE IF plat = "darwin"
    THEN <<"/opt/homebrew/bin/python3", "/usr/local/bin/python3", "python3",
           "python">>
    ELSE <<"python3", "python", "/usr/bin/python3">>

\* const pipCandidates
PipCandidates(plat) ==
  IF plat = "win32" THEN <<"pip", "pip3">> ELSE <<"pip3", "pip">>

\* What "<cmd> --version" prints on stdout: a Python 3 banner, or nothing
\* (Python 2 prints its banner on stderr).
Banner3 == <<"Python", " ", "3", ".", "12", ".", "1">>
BannerNone == <<>>

\* ver.includes("3.")
Includes3Dot(ver) ==
  \E i \in 1..(Len(ver) - 1) : ver[i] = "3" /\ ver[i + 1] = "."

\* execSync(`"${cmd}" --version`, execOpts).trim(): the answer "fail" is a
\* nonzero exit or the 8 s timeout, both of which throw.
ExecVersion(answer) ==
  [threw |-> answer = "fail",
   out |-> IF answer = "3" THEN Banner3 ELSE BannerNone]

\* The answers of one python candidate: its version banner, whether
\* "-m pip --version" works, whether "-m ensurepip --upgrade" works, and
\* whether "-m pip --version" works after that.
PyAnswer(v, p, e, a) == [version |-> v, pip |-> p, ensurepip |-> e, pipAfter |-> a]
PyAnswers ==
  {PyAnswer("fail", FALSE, FALSE, FALSE), PyAnswer("2", FALSE, FALSE, FALSE),
   PyAnswer("3", TRUE, FALSE, FALSE), PyAnswer("3", FALSE, FALSE, FALSE),
   PyAnswer("3", FALSE, TRUE, FALSE), PyAnswer("3", FALSE, TRUE, TRUE)}

\* The answers of one pip candidate: whether which/where finds it, whether
\* "<pipPath> --version" works, the interpreter pythonFromPip derives from its
\* banner ("null": none), and that interpreter's version banner.
PipAnswer(w, k, d, v) == [which |-> w, works |-> k, derived |-> d, version |-> v]
PipAnswers ==
  {PipAnswer(FALSE, FALSE, FALSE, "fail"), PipAnswer(TRUE, FALSE, FALSE, "fail"),
   PipAnswer(TRUE, TRUE, FALSE, "fail"), PipAnswer(TRUE, TRUE, TRUE, "3"),
   PipAnswer(TRUE, TRUE, TRUE, "2"), PipAnswer(TRUE, TRUE, TRUE, "fail")}

Range(q) == {q[i] : i \in 1..Len(q)}

LocEnvs(plat) ==
  [py : [Range(PythonCandidates(plat)) -> PyAnswers],
   pip : [Range(PipCandidates(plat)) -> PipAnswers]]

\* resolveCommandPath(cmd): the first line which/where prints
resolveCommandPath(cmd) == IF cmd = "pip3" THEN "/usr/bin/pip3" ELSE "/usr/bin/pip"

\* pythonFromPip(pipPath): the first existing interpreter under the prefix
\* that pip's banner names, or null.
pythonFromPip(answer, pipPath) ==
  IF ~answer.works \/ ~answer.derived THEN "null"
  ELSE IF pipPath = "/usr/bin/pip3" THEN "/usr/bin/python3(pip3)"
  ELSE "/usr/bin/python(pip)"

RECURSIVE Pass1FirstVersionOk(_, _, _, _)
\* Variant: pass 1 returns the first candidate whose version check passes,
\* without asking whether "-m pip" works.
Pass1FirstVersionOk(env, cands, i, ran) ==
  IF i > Len(cands) THEN [pair |-> NoPair, ran |-> ran]
  ELSE
    LET cmd == cands[i]
        v == ExecVersion(env.py[cmd].version)
        ran1 == Append(ran, Ran(cmd, <<"--version">>, ~v.threw))
    IN IF v.threw \/ ~Includes3Dot(v.out)
         THEN Pass1FirstVersionOk(env, cands, i + 1, ran1)
         ELSE [pair |-> Pair(cmd, cmd, <<"-m", "pip">>), ran |-> ran1]

RECURSIVE Pass1(_, _, _, _)
\* Pass 1: find a Python that already has pip.
Pass1(env, cands, i, ran) ==
  IF i > Len(cands) THEN [pair |-> NoPair, ran |-> ran]
  ELSE
    LET cmd == cands[i]
        v == ExecVersion(env.py[cmd].version)
        ran1 == Append(ran, Ran(cmd, <<"--version">>, ~v.threw))
        ran2 == Append(ran1, Ran(cmd, <<"-m", "pip", "--version">>,
                                 env.py[cmd].pip))
    IN IF v.threw \/ ~Includes3Dot(v.out) THEN Pass1(env, cands, i + 1, ran1)
       ELSE IF env.py[cmd].pip
         THEN [pair |-> Pair(cmd, cmd, <<"-m", "pip">>), ran |-> ran2]
         ELSE Pass1(env, cands, i + 1, ran2)

RECURSIVE Pass2Fallback(_, _, _, _, _)
\* Pass 2, fallback: the pip binary with the first candidate reporting 3.
Pass2Fallback(env, cands, i, pipPath, ran) ==
  IF i > Len(cands) THEN [pair |-> NoPair, ran |-> ran]
  ELSE
    LET cmd == cands[i]
        v == ExecVersion(env.py[cmd].version)
        ran1 == Append(ran, Ran(cmd, <<"--version">>, ~v.threw))
    IN IF ~v.threw /\ Includes3Dot(v.out)
         THEN [pair |-> Pair(cmd, pipPath, <<>>), ran |-> ran1]
         ELSE Pass2Fallback(env, cands, i + 1, pipPath, ran1)

RECURSIVE Pass2(_, _, _, _, _)
\* Pass 2: find a pip3/pip binary and resolve its Python.
Pass2(env, cands, pips, j, ran) ==
  IF j > Len(pips) THEN [pair |-> NoPair, ran |-> ran]
  ELSE
    LET pipCmd == pips[j]
        a == env.pip[pipCmd]
        pipPath == resolveCommandPath(pipCmd)
        ran1 == Append(ran, Ran("which", <<pipCmd>>, a.which))
        ran2 == Append(ran1, Ran(pipPath, <<"--version">>, a.works))
        derivedPython == pythonFromPip(a, pipPath)
        ran3 == Append(ran2, Ran(pipPath, <<"--version">>, a.works))
        v == ExecVersion(a.version)
        ran4 == IF derivedPython = "null" THEN ran3
                ELSE Append(ran3, Ran(derivedPython, <<"--version">>, ~v.threw))
        fb == Pass2Fallback(env, cands, 1, pipPath, ran4)
    IN IF ~a.which THEN Pass2(env, cands, pips, j + 1, ran1)
       ELSE IF ~a.works THEN Pass2(env, cands, pips, j + 1, ran2)
       ELSE IF derivedPython # "null" /\ ~v.threw /\ Includes3Dot(v.out)
         THEN [pair |-> Pair(derivedPython, derivedPython, <<"-m", "pip">>),
               ran |-> ran4]
       ELSE IF fb.pair # NoPair THEN fb
       ELSE Pass2(env, cands, pips, j + 1, fb.ran)

RECURSIVE Pass3NoPipCheck(_, _, _, _)
\* Variant: pass 3 returns as soon as ensurepip succeeded, without the
\* "-m pip --version" check after it.
Pass3NoPipCheck(env, cands, i, ran) ==
  IF i > Len(cands) THEN [pair |-> NoPair, ran |-> ran]
  ELSE
    LET cmd == cands[i]
        v == ExecVersion(env.py[cmd].version)
        ran1 == Append(ran, Ran(cmd, <<"--version">>, ~v.threw))
        ran2 == Append(ran1, Ran(cmd, <<"-m", "ensurepip", "--upgrade">>,
                                 env.py[cmd].ensurepip))
    IN IF v.threw \/ ~Includes3Dot(v.out)
         THEN Pass3NoPipCheck(env, cands, i + 1, ran1)
       ELSE IF ~env.py[cmd].ensurepip
         THEN Pass3NoPipCheck(env, cands, i + 1, ran2)
       ELSE [pair |-> Pair(cmd, cmd, <<"-m", "pip">>), ran |-> ran2]

RECURSIVE Pass3(_, _, _, _)
\* Pass 3: Python without pip, try the ensurepip bootstrap.
Pass3(env, cands, i, ran) ==
  IF i > Len(cands) THEN [pair |-> NoPair, ran |-> ran]
  ELSE
    LET cmd == cands[i]
        v == ExecVersion(env.py[cmd].version)
        ran1 == Append(ran, Ran(cmd, <<"--version">>, ~v.threw))
        ran2 == Append(ran1, Ran(cmd, <<"-m", "ensurepip", "--upgrade">>,
                                 env.py[cmd].ensurepip))
        ran3 == Append(ran2, Ran(cmd, <<"-m", "pip", "--version">>,
                                 env.py[cmd].pipAfter))
    IN IF v.threw \/ ~Includes3Dot(v.out) THEN Pass3(env, cands, i + 1, ran1)
       ELSE IF ~env.py[cmd].ensurepip THEN Pass3(env, cands, i + 1, ran2)
       ELSE IF ~env.py[cmd].pipAfter THEN Pass3(env, cands, i + 1, ran3)
       ELSE [pair |-> Pair(cmd, cmd, <<"-m", "pip">>), ran |-> ran3]

\* findPythonAndPip(): the pair it returns (NoPair: null) and the commands
\* it executed.
findPythonAndPip(plat, env) ==
  LET cands == PythonCandidates(plat)
      p1 == Pass1(env, cands, 1, <<>>)
      p2 == Pass2(env, cands, PipCandidates(plat), 1, p1.ran)
  IN IF p1.pair # NoPair THEN p1
     ELSE IF p2.pair # NoPair THEN p2
     ELSE Pass3(env, cands, 1, p2.ran)

\* ------------------------------------------------------------------ Init

\* The whenReady handler has not run yet.
StartupNotBegun ==
  /\ startPc = "init"
  /\ locEnv = NoEnv
  /\ found = [pair |-> NoPair, ran |-> <<>>]
  /\ checkOutput = [threw |-> FALSE, text |-> <<>>]
  /\ pipNames = <<>>
  /\ pipLog = <<>>
  /\ brewLog = <<>>
  /\ progressWin = "none"
  /\ cairoWin = "none"
  /\ dialogs = {}
  /\ depsResult = NoResult
  /\ createdWindows = {}
  /\ cairoOutcome = "notrun"
  /\ cairoEnv = NoCairoEnv

Init ==
  /\ platform \in {"darwin", "linux"}
  /\ appQuit = FALSE
  /\ mainWindow = FALSE
  /\ bridgeProcess = "null"
  /\ bridgeReady = FALSE
  /\ pendingRequests = <<>>
  /\ requestQueue = <<>>
  /\ currentRequest = 0
  /\ buffer = <<>>
  /\ workerState = "none"
  /\ stdinWritable = FALSE
  /\ stdoutPipe = <<>>
  /\ written = <<>>
  /\ workerRead = 0
  /\ emitted = 0
  /\ conforms = TRUE
  /\ reply = [r \in ReqIds |-> NoMsg]
  /\ outcome = [r \in ReqIds |-> Pending]
  /\ settleCalls = [r \in ReqIds |-> 0]
  /\ nextId = 1
  /\ sentStopped = {}
  /\ readySeen = FALSE
  /\ consumed = <<>>
  /\ parsedLog = <<>>
  /\ splitSeen = FALSE
  /\ quitting = FALSE
  /\ StartupNotBegun

envVars == <<workerState, stdinWritable, stdoutPipe, workerRead, emitted,
             conforms, reply>>
appVars == <<platform, appQuit, mainWindow, quitting>>
startVars == <<startPc, locEnv, found, checkOutput, pipNames, pipLog, brewLog,
               progressWin, cairoWin, dialogs, depsResult, createdWindows,
               cairoOutcome, cairoEnv>>
logVars == <<consumed, parsedLog, splitSeen>>
frameVars == <<buffer, consumed, parsedLog, splitSeen>>
dispVars == <<bridgeReady, pendingRequests, requestQueue, currentRequest,
              written, outcome, settleCalls, readySeen>>

\* --------------------------------------------------- the main process
\* The states of the dispatcher: not ready yet, ready (idle or busy), and
\* stopped once the exit handler has run.
DispatcherState ==
  IF workerState = "reaped" THEN "Stopped"
  ELSE IF bridgeReady THEN "Ready" ELSE "NotReady"

\* Variant: sendToBridge queues the request without calling processQueue().
sendToBridgeNoDispatch(d, r) ==
  IF ~d.bridgeReady
    THEN [d EXCEPT !.pendingRequests = Append(@, r)]
    ELSE [d EXCEPT !.requestQueue = Append(@, r)]

\* Variant: sendToBridge without its "if (!bridgeReady)" branch.
sendToBridgeNoReadyCheck(d, r) ==
  processQueue([d EXCEPT !.requestQueue = Append(@, r)])

\* sendToBridge(cmdName, payload), called by an ipcMain handler.
sendToBridge(d, r) ==
  IF ~d.bridgeReady
    THEN [d EXCEPT !.pendingRequests = Append(@, r)]
    ELSE processQueue([d EXCEPT !.requestQueue = Append(@, r)])

Send ==
  /\ ~appQuit
  /\ mainWindow
  /\ nextId <= MaxReq
  /\ SetDispatcher(sendToBridge(Dispatcher, nextId))
  /\ nextId' = nextId + 1
  /\ sentStopped' = IF DispatcherState = "Stopped"
                      THEN sentStopped \cup {nextId} ELSE sentStopped
  /\ UNCHANGED <<bridgeProcess>>
  /\ UNCHANGED appVars
  /\ UNCHANGED envVars
  /\ UNCHANGED frameVars
  /\ UNCHANGED startVars

\* bridgeProcess.stdout.on("data"): a chunk of n characters arrives.
OnStdoutData(n) ==
  /\ ~appQuit
  /\ workerState # "none"
  /\ n \in 1..Len(stdoutPipe)
  /\ LET chunk == SubSeq(stdoutPipe, 1, n)
         lines == FrameLines(buffer, chunk)
     IN /\ buffer' = FrameTail(buffer, chunk)
        /\ SetDispatcher(HandleLines(Dispatcher, lines))
  /\ stdoutPipe' = SubSeq(stdoutPipe, n + 1, Len(stdoutPipe))
  /\ UNCHANGED <<bridgeProcess, workerState, stdinWritable, workerRead,
                 emitted, conforms, reply, nextId, sentStopped>>
  /\ UNCHANGED appVars
  /\ UNCHANGED startVars

\* The record of what the framer was fed and what it handed on.
LogChunk(n) ==
  LET chunk == SubSeq(stdoutPipe, 1, n)
      lines == FrameLines(buffer, chunk)
  IN /\ consumed' = consumed \o chunk
     /\ parsedLog' = HandleLines(Dispatcher, lines).parsedLog
     /\ splitSeen' = (splitSeen \/
                       (/\ buffer # <<>>
                        /\ Last(buffer) = LB
                        /\ lines # <<>>
                        /\ ~JSONparse(lines[1]).threw))

\* bridgeProcess.stderr.on("data"): the worker wrote to its stderr and the
\* chunk is logged; the handler touches nothing else.
OnStderrData ==
  /\ ~appQuit
  /\ workerState # "none"
  /\ emitted < MaxLines
  /\ emitted' = emitted + 1
  /\ UNCHANGED <<bridgeProcess, workerState, stdinWritable, stdoutPipe,
                 workerRead, conforms, reply, nextId, sentStopped>>
  /\ UNCHANGED appVars
  /\ UNCHANGED frameVars
  /\ UNCHANGED dispVars
  /\ UNCHANGED startVars

\* Variant: the exit handler rejects the request in flight and drops the queue
\* without rejecting its requests.
ExitHandlerInFlightOnly(d) ==
  LET d1 == IF d.currentRequest # 0
              THEN [Settle(d, d.currentRequest, Rejected("Bridge exited"))
                      EXCEPT !.currentRequest = 0]
              ELSE d
  IN [d1 EXCEPT !.bridgeReady = FALSE, !.requestQueue = <<>>]

\* The body of bridgeProcess.on("exit").
ExitHandler(d) ==
  LET d1 == IF d.currentRequest # 0
              THEN [Settle(d, d.currentRequest, Rejected("Bridge exited"))
                      EXCEPT !.currentRequest = 0]
              ELSE d
      RejectAll[i \in 0..Len(d.requestQueue)] ==
        IF i = 0 THEN d1
        ELSE Settle(RejectAll[i - 1], d.requestQueue[i], Rejected("Bridge exited"))
  IN [RejectAll[Len(d.requestQueue)]
        EXCEPT !.bridgeReady = FALSE, !.requestQueue = <<>>]

OnExit ==
  /\ ~appQuit
  /\ workerState = "exited"
  /\ workerState' = "reaped"
  /\ bridgeProcess' = "null"
  /\ SetDispatcher(ExitHandler(Dispatcher))
  /\ UNCHANGED <<stdinWritable, stdoutPipe, workerRead, emitted, conforms,
                 reply, nextId, sentStopped>>
  /\ UNCHANGED appVars
  /\ UNCHANGED frameVars
  /\ UNCHANGED startVars

\* if (bridgeProcess) { bridgeProcess.kill(); bridgeProcess = null; }
KillBridge ==
  /\ bridgeProcess' = "null"
  /\ workerState' = IF bridgeProcess # "null" /\ workerState = "running"
                      THEN "exited" ELSE workerState

\* return { ok: true, pythonCmd } / return { ok: false }
DepsOk(python) == [returned |-> TRUE, ok |-> TRUE, pythonCmd |-> python]
DepsFailed == [returned |-> TRUE, ok |-> FALSE, pythonCmd |-> "null"]

\* bridgeProcess = spawn(pythonCmd, ["cli_bridge.py"], ...): the handle is
\* identified by the command it was spawned with.
SpawnWorker(python) ==
  /\ bridgeProcess' = python
  /\ workerState' = "running"
  /\ stdinWritable' = TRUE

\* ensureDependencies returns deps; startBridge quits or spawns the worker;
\* the whenReady handler then calls createWindow().
ReturnDeps(deps, dlg, wins) ==
  /\ depsResult' = deps
  /\ IF deps.ok
       THEN SpawnWorker(deps.pythonCmd) /\ UNCHANGED quitting
       ELSE quitting' = TRUE /\ KillBridge /\ UNCHANGED stdinWritable
  /\ mainWindow' = TRUE
  /\ createdWindows' = wins \cup {"main"}
  /\ dialogs' = dlg
  /\ startPc' = "done"

\* app.whenReady on the path without an await: ensureDependencies finds
\* nothing to install and returns ok: true, startBridge spawns the worker,
\* createWindow() follows.
StartBridge ==
  /\ ~appQuit
  /\ startPc = "init"
  /\ workerState = "none"
  /\ ReturnDeps(DepsOk("python3"), dialogs, createdWindows)
  /\ UNCHANGED <<platform, appQuit, stdoutPipe, workerRead, emitted, conforms,
                 reply, nextId, sentStopped>>
  /\ UNCHANGED <<locEnv, found, checkOutput, pipNames, pipLog, brewLog,
                 progressWin, cairoWin, cairoOutcome, cairoEnv>>
  /\ UNCHANGED frameVars
  /\ UNCHANGED dispVars

\* The body of app.on("window-all-closed"); app.quit() emits before-quit, whose
\* handler kills the bridge as well.
WindowAllClosedHandler ==
  /\ KillBridge
  /\ quitting' = (quitting \/ platform # "darwin")

NoOtherWindow(w) ==
  /\ (w # "main" => ~mainWindow)
  /\ (w # "progress" => progressWin \notin {"open", "closing"})
  /\ (w # "cairo" => cairoWin \notin {"open", "closing"})

\* The main window is closed and was the last one: window-all-closed.
WindowAllClosed ==
  /\ ~appQuit
  /\ ~quitting
  /\ mainWindow
  /\ NoOtherWindow("main")
  /\ mainWindow' = FALSE
  /\ WindowAllClosedHandler
  /\ UNCHANGED <<platform, appQuit, stdinWritable, stdoutPipe, workerRead,
                 emitted, conforms, reply, nextId, sentStopped>>
  /\ UNCHANGED frameVars
  /\ UNCHANGED dispVars
  /\ UNCHANGED startVars

\* app.on("activate"): a window is created again (the event is macOS-only).
Activate ==
  /\ ~appQuit
  /\ platform = "darwin"
  /\ workerState # "none"
  /\ ~mainWindow
  /\ mainWindow' = TRUE
  /\ UNCHANGED <<platform, appQuit, quitting, bridgeProcess, nextId,
                 sentStopped>>
  /\ UNCHANGED envVars
  /\ UNCHANGED frameVars
  /\ UNCHANGED dispVars
  /\ UNCHANGED startVars

\* After app.quit() the windows are closed and the process ends; until then
\* the main process keeps handling events.
AppExit ==
  /\ ~appQuit
  /\ quitting
  /\ appQuit' = TRUE
  /\ mainWindow' = FALSE
  /\ UNCHANGED <<platform, quitting, bridgeProcess, nextId, sentStopped>>
  /\ UNCHANGED envVars
  /\ UNCHANGED frameVars
  /\ UNCHANGED dispVars
  /\ UNCHANGED startVars

\* ------------------------------------------------------------ the worker
WorkerEmits(line, ok) ==
  /\ ~appQuit
  /\ workerState = "running"
  /\ emitted < MaxLines
  /\ emitted' = emitted + 1
  /\ stdoutPipe' = stdoutPipe \o line \o <<NL>>
  /\ conforms' = (conforms /\ ok)

\* The worker announces readiness.
WorkerReady ==
  /\ WorkerEmits(Line(ReadyMsg), emitted = 0)
  /\ UNCHANGED <<bridgeProcess, workerState, stdinWritable, workerRead, reply,
                 nextId, sentStopped>>
  /\ UNCHANGED appVars
  /\ UNCHANGED frameVars
  /\ UNCHANGED dispVars
  /\ UNCHANGED startVars

Replies(c) ==
  {ResultMsg(c), BareMsg(c)} \cup {FailureMsg(c, e) : e \in ErrTexts \cup {NoText}}

\* The worker answers the next command it read from its stdin.
WorkerReply ==
  /\ workerRead < Len(written)
  /\ \E m \in Replies(written[workerRead + 1]) :
       /\ WorkerEmits(Line(m), TRUE)
       /\ reply' = [reply EXCEPT ![written[workerRead + 1]] = m]
  /\ workerRead' = workerRead + 1
  /\ UNCHANGED <<bridgeProcess, workerState, stdinWritable, nextId, sentStopped>>
  /\ UNCHANGED appVars
  /\ UNCHANGED frameVars
  /\ UNCHANGED dispVars
  /\ UNCHANGED startVars

NoiseLines == {<<LB>>, Line(ResultMsg(0))}
BlankLines == {<<SP>>}

\* The worker writes a line that answers no command.
WorkerNoise ==
  /\ \E l \in NoiseLines : WorkerEmits(l, FALSE)
  /\ UNCHANGED <<bridgeProcess, workerState, stdinWritable, workerRead, reply,
                 nextId, sentStopped>>
  /\ UNCHANGED appVars
  /\ UNCHANGED frameVars
  /\ UNCHANGED dispVars
  /\ UNCHANGED startVars

\* The worker writes an empty or whitespace-only line.
WorkerBlank ==
  /\ \E l \in BlankLines : WorkerEmits(l, TRUE)
  /\ UNCHANGED <<bridgeProcess, workerState, stdinWritable, workerRead, reply,
                 nextId, sentStopped>>
  /\ UNCHANGED appVars
  /\ UNCHANGED frameVars
  /\ UNCHANGED dispVars
  /\ UNCHANGED startVars

\* The worker process terminates on its own (crash or normal end).
WorkerExit ==
  /\ ~appQuit
  /\ workerState = "running"
  /\ workerState' = "exited"
  /\ UNCHANGED <<bridgeProcess, stdinWritable, stdoutPipe, workerRead, emitted,
                 conforms, reply, nextId, sentStopped>>
  /\ UNCHANGED appVars
  /\ UNCHANGED frameVars
  /\ UNCHANGED dispVars
  /\ UNCHANGED startVars

\* A write to the dead worker's stdin failed: the stream is no longer writable.
StdinBroken ==
  /\ ~appQuit
  /\ workerState = "exited"
  /\ stdinWritable
  /\ stdinWritable' = FALSE
  /\ UNCHANGED <<bridgeProcess, workerState, stdoutPipe, workerRead, emitted,
                 conforms, reply, nextId, sentStopped>>
  /\ UNCHANGED appVars
  /\ UNCHANGED frameVars
  /\ UNCHANGED dispVars
  /\ UNCHANGED startVars

Next ==
  \/ StartBridge
  \/ Send
  \/ \E n \in 1..Len(stdoutPipe) : OnStdoutData(n) /\ UNCHANGED logVars
  \/ OnStderrData
  \/ OnExit
  \/ WindowAllClosed
  \/ Activate
  \/ AppExit
  \/ WorkerReady
  \/ WorkerReply
  \/ WorkerNoise
  \/ WorkerBlank
  \/ WorkerExit
  \/ StdinBroken

Spec == Init /\ [][Next]_vars

\* ------------------------------------------------- the framer on its own
\* The worker has been spawned and has written an arbitrary text; data events
\* deliver it in arbitrary chunks.
MaxText == 5

Alphabet == {NL, SP, LB, BODY(ReadyMsg), BODY(ResultMsg(0))}
Texts == UNION {[1..k -> Alphabet] : k \in 0..MaxText}

InitFramer ==
  /\ platform = "linux"
  /\ appQuit = FALSE
  /\ mainWindow = TRUE
  /\ bridgeProcess = "python3"
  /\ bridgeReady = FALSE
  /\ pendingRequests = <<>>
  /\ requestQueue = <<>>
  /\ currentRequest = 0
  /\ buffer = <<>>
  /\ workerState = "running"
  /\ stdinWritable = TRUE
  /\ stdoutPipe \in Texts
  /\ written = <<>>
  /\ workerRead = 0
  /\ emitted = 0
  /\ conforms = TRUE
  /\ reply = [r \in ReqIds |-> NoMsg]
  /\ outcome = [r \in ReqIds |-> Pending]
  /\ settleCalls = [r \in ReqIds |-> 0]
  /\ nextId = 1
  /\ sentStopped = {}
  /\ readySeen = FALSE
  /\ consumed = <<>>
  /\ parsedLog = <<>>
  /\ splitSeen = FALSE
  /\ quitting = FALSE
  /\ StartupNotBegun

NextFramer == \E n \in 1..Len(stdoutPipe) : OnStdoutData(n) /\ LogChunk(n)

SpecFramer == InitFramer /\ [][NextFramer]_vars

\* ------------------------------------------------- discovery on its own
\* findPythonAndPip applied to every combination of answers that the
\* commands it runs can give, on each platform.
InitLocate ==
  /\ platform \in {"darwin", "linux", "win32"}
  /\ locEnv \in LocEnvs(platform)
  /\ appQuit = FALSE
  /\ mainWindow = FALSE
  /\ bridgeProcess = "null"
  /\ bridgeReady = FALSE
  /\ pendingRequests = <<>>
  /\ requestQueue = <<>>
  /\ currentRequest = 0
  /\ buffer = <<>>
  /\ workerState = "none"
  /\ stdinWritable = FALSE
  /\ stdoutPipe = <<>>
  /\ written = <<>>
  /\ workerRead = 0
  /\ emitted = 0
  /\ conforms = TRUE
  /\ reply = [r \in ReqIds |-> NoMsg]
  /\ outcome = [r \in ReqIds |-> Pending]
  /\ settleCalls = [r \in ReqIds |-> 0]
  /\ nextId = 1
  /\ sentStopped = {}
  /\ readySeen = FALSE
  /\ consumed = <<>>
  /\ parsedLog = <<>>
  /\ splitSeen = FALSE
  /\ quitting = FALSE
  /\ startPc = "init"
  /\ found = [pair |-> NoPair, ran |-> <<>>]
  /\ checkOutput = [threw |-> FALSE, text |-> <<>>]
  /\ pipNames = <<>>
  /\ pipLog = <<>>
  /\ brewLog = <<>>
  /\ progressWin = "none"
  /\ cairoWin = "none"
  /\ dialogs = {}
  /\ depsResult = NoResult
  /\ createdWindows = {}
  /\ cairoOutcome = "notrun"
  /\ cairoEnv = NoCairoEnv

\* const found = findPythonAndPip();
Locate ==
  /\ startPc = "init"
  /\ found' = findPythonAndPip(platform, locEnv)
  /\ startPc' = "located"
  /\ UNCHANGED <<locEnv, checkOutput, pipNames, pipLog, brewLog, progressWin,
                 cairoWin, dialogs, depsResult, createdWindows, cairoOutcome, cairoEnv>>
  /\ UNCHANGED <<bridgeProcess, nextId, sentStopped>>
  /\ UNCHANGED appVars
  /\ UNCHANGED envVars
  /\ UNCHANGED frameVars
  /\ UNCHANGED dispVars

NextLocate == Locate

SpecLocate == InitLocate /\ [][NextLocate]_vars

\* ------------------------------------------------------------- startup
\* const REQUIRED_PACKAGES (import name, pip name)
Package(i, p) == [importName |-> i, pipName |-> p]
REQUIRED_PACKAGES ==
  <<Package("cv2", "opencv-python-headless"), Package("numpy", "numpy"),
    Package("skimage", "scikit-image"), Package("PIL", "Pillow"),
    Package("cairosvg", "cairosvg"), Package("shapely", "shapely")>>

\* One line of the probe script's output: "ok:<name>" or "miss:<name>".
ProbeLine(tag, name) == [tag |-> tag, name |-> name]

\* What the probe script prints when it runs to its end: one line per
\* required package, in order.
ProbeOutputs ==
  {[i \in 1..Len(REQUIRED_PACKAGES) |->
      ProbeLine(IF i \in miss THEN "miss" ELSE "ok",
                REQUIRED_PACKAGES[i].importName)] :
     miss \in SUBSET (1..Len(REQUIRED_PACKAGES))}

\* execSync of the probe script: its output, or a throw (nonzero exit, or
\* the 30 s timeout).
ProbeAnswers ==
  {[threw |-> FALSE, text |-> o] : o \in ProbeOutputs}
    \cup {[threw |-> TRUE, text |-> <<>>]}

\* REQUIRED_PACKAGES.map((p) => `miss:${p.importName}`).join("\n")
AllMissing ==
  [i \in 1..Len(REQUIRED_PACKAGES) |->
     ProbeLine("miss", REQUIRED_PACKAGES[i].importName)]

\* checkOutput.includes(`miss:${importName}`); no import name is a prefix of
\* another, so the substring test finds the line of that package only.
IncludesMiss(text, importName) ==
  \E i \in 1..Len(text) : text[i] = ProbeLine("miss", importName)

\* Array.prototype.filter
RECURSIVE Filter(_, _, _)
Filter(seq, text, i) ==
  IF i > Len(seq) THEN <<>>
  ELSE IF IncludesMiss(text, seq[i].importName)
    THEN <<seq[i]>> \o Filter(seq, text, i + 1)
    ELSE Filter(seq, text, i + 1)

\* Variant: every required package is taken as missing, whatever the probe
\* printed.
MissingWholeList(text) == REQUIRED_PACKAGES

\* const missing = REQUIRED_PACKAGES.filter(...)
Missing(text) == Filter(REQUIRED_PACKAGES, text, 1)

\* missing.map((p) => p.pipName)
PipNamesOf(missing) == [i \in 1..Len(missing) |-> missing[i].pipName]

\* Variant: the install arguments name the packages by their import names'
\* order reversed.
buildPipInstallArgsReversed(pipArgs, extraFlags, names) ==
  pipArgs \o <<"install", "--quiet">> \o extraFlags
    \o [i \in 1..Len(names) |-> names[Len(names) + 1 - i]]

\* buildPipInstallArgs(extraFlags)
buildPipInstallArgs(pipArgs, extraFlags, names) ==
  pipArgs \o <<"install", "--quiet">> \o extraFlags \o names

\* A command started with spawn(): it is running, or it will never end on
\* its own ("hung"), or it has closed with exit code 0 ("ok") or not ("fail").
\* marker: the error text contains "externally-managed".  spawn() is given
\* no timeout option.
Spawned(cmd, args) ==
  [cmd |-> cmd, args |-> args, result |-> "running", marker |-> FALSE,
   timeout |-> "none"]

Closed(proc, success, marker) ==
  [proc EXCEPT !.result = IF success THEN "ok" ELSE "fail", !.marker = marker]

NoMore == <<"none">>
PlainFlags == <<>>
BreakFlags == <<"--break-system-packages">>
UserFlags == <<"--user">>

FlagsOf(proc) ==
  IF \E i \in 1..Len(proc.args) : proc.args[i] = "--break-system-packages"
    THEN BreakFlags
  ELSE IF \E i \in 1..Len(proc.args) : proc.args[i] = "--user" THEN UserFlags
  ELSE PlainFlags

\* Variant: the override flag is never tried.
RetryWithBreakNever(proc) == FALSE

\* if (!result.success && result.error.includes("externally-managed"))
RetryWithBreak(proc) == proc.result # "ok" /\ proc.marker

\* Variant: the --user install is run whatever the result before it.
RetryWithUserAlways(proc) == TRUE

\* if (!result.success)
RetryWithUser(proc) == proc.result # "ok"

\* The flags of the install to run after the attempt proc has closed (NoMore:
\* none): the first test follows the plain attempt, the second follows the
\* plain or the override attempt.
NextFlags(proc) ==
  IF FlagsOf(proc) = PlainFlags /\ RetryWithBreak(proc) THEN BreakFlags
  ELSE IF FlagsOf(proc) # UserFlags /\ RetryWithUser(proc) THEN UserFlags
  ELSE NoMore

\* Variant: a failed native-library install makes provisioning fail.
DepsAfterCairoFatal(installed, python) ==
  [returned |-> TRUE, ok |-> installed,
   pythonCmd |-> IF installed THEN python ELSE "null"]

\* await ensureCairoMac(); return { ok: true, pythonCmd };
DepsAfterCairo(installed, python) ==
  [returned |-> TRUE, ok |-> TRUE, pythonCmd |-> python]

NoBridgeTraffic ==
  /\ UNCHANGED <<stdoutPipe, workerRead, emitted, conforms, reply, nextId,
                 sentStopped>>
  /\ UNCHANGED frameVars
  /\ UNCHANGED dispVars

\* The startup code is waiting at an await: nothing of the bridge changes.
Awaiting(pc) ==
  /\ startPc' = pc
  /\ UNCHANGED <<mainWindow, quitting, bridgeProcess, workerState,
                 stdinWritable, depsResult>>

BrewPath == "/opt/homebrew/bin/brew"
\* What ensureCairoMac asks of its environment: whether "brew list cairo"
\* succeeds (a failure includes its 10 s timeout), the path of brew
\* (resolveCommandPath or one of the two fixed locations), and the button the
\* user picks in the question dialog (0: install, 1: skip).  "brew list cairo"
\* cannot succeed where there is no brew.
CairoEnvs ==
  {a \in [listed : BOOLEAN, brewPath : {"null", BrewPath}, choice : {0, 1}] :
     a.listed => a.brewPath # "null"}

\* Variant: the install goes ahead whatever button the user picked.
CairoChecksNoConsent(a) ==
  IF a.listed THEN "present"
  ELSE IF a.brewPath = "null" THEN "nobrew"
  ELSE "consented"

\* The checks of ensureCairoMac on macOS, in the order of the code.
CairoChecks(a) ==
  IF a.listed THEN "present"
  ELSE IF a.brewPath = "null" THEN "nobrew"
  ELSE IF a.choice # 0 THEN "declined"
  ELSE "consented"

InfoDialog == "Optional: Install libcairo for PNG/JPG Export"
ConsentDialog == "Install libcairo for PNG/JPG Export?"

\* ensureCairoMac() up to its first await, or to its return.
EnsureCairoMac(python, dlg, wins) ==
  IF platform # "darwin"
    THEN /\ cairoOutcome' = "skipped"
         /\ UNCHANGED <<cairoWin, brewLog, cairoEnv>>
         /\ ReturnDeps(DepsAfterCairo(TRUE, python), dlg, wins)
    ELSE \E a \in CairoEnvs :
      /\ cairoEnv' = a
      /\ cairoOutcome' = CairoChecks(a)
      /\ UNCHANGED brewLog
      /\ CASE CairoChecks(a) = "present" ->
                /\ UNCHANGED cairoWin
                /\ ReturnDeps(DepsAfterCairo(TRUE, python), dlg, wins)
           [] CairoChecks(a) = "nobrew" ->
                /\ UNCHANGED cairoWin
                /\ ReturnDeps(DepsAfterCairo(FALSE, python),
                              dlg \cup {InfoDialog}, wins)
           [] CairoChecks(a) = "declined" ->
                /\ UNCHANGED cairoWin
                /\ ReturnDeps(DepsAfterCairo(FALSE, python),
                              dlg \cup {ConsentDialog}, wins)
           [] CairoChecks(a) = "consented" ->
                /\ cairoWin' = "open"
                /\ createdWindows' = wins \cup {"cairo"}
                /\ dialogs' = dlg \cup {ConsentDialog}
                /\ Awaiting("cairoPaint")

\* app.whenReady: startBridge calls ensureDependencies, which runs
\* findPythonAndPip and the probe script (execSync, 30 s timeout) and goes on
\* to its first await or to its return.
BeginStartup ==
  /\ ~appQuit
  /\ startPc = "init"
  /\ LET f == findPythonAndPip(platform, locEnv)
     IN /\ found' = f
        /\ IF f.pair = NoPair
             THEN /\ ReturnDeps(DepsFailed, dialogs \cup {"Python / pip Not Found"},
                                createdWindows)
                  /\ UNCHANGED <<checkOutput, pipNames, progressWin, cairoWin,
                                 brewLog, cairoOutcome, cairoEnv>>
             ELSE \E answer \in ProbeAnswers :
               LET text == IF answer.threw THEN AllMissing ELSE answer.text
                   missing == Missing(text)
               IN /\ checkOutput' = [threw |-> answer.threw, text |-> text]
                  /\ pipNames' = PipNamesOf(missing)
                  /\ IF Len(missing) = 0
                       THEN /\ EnsureCairoMac(f.pair.pythonCmd, dialogs,
                                              createdWindows)
                            /\ UNCHANGED progressWin
                       ELSE /\ progressWin' = "open"
                            /\ createdWindows' = createdWindows \cup {"progress"}
                            /\ Awaiting("pipPaint")
                            /\ UNCHANGED <<cairoWin, brewLog, cairoOutcome, cairoEnv,
                                           dialogs>>
  /\ UNCHANGED <<platform, appQuit, locEnv, pipLog>>
  /\ NoBridgeTraffic

\* runPip(args): spawn(pipInfo.cmd, args)
runPip(flags) ==
  Spawned(found.pair.pipCmd,
          buildPipInstallArgs(found.pair.pipArgs, flags, pipNames))

\* The 600 ms timer fires: the first install attempt is started.
PipPainted ==
  /\ ~appQuit
  /\ startPc = "pipPaint"
  /\ pipLog' = <<runPip(PlainFlags)>>
  /\ Awaiting("pip")
  /\ UNCHANGED <<locEnv, found, checkOutput, pipNames, brewLog, progressWin,
                 cairoWin, dialogs, createdWindows, cairoOutcome, cairoEnv>>
  /\ UNCHANGED <<platform, appQuit>>
  /\ NoBridgeTraffic

\* progressWin.close() / cairoWin.close(), unless it isDestroyed().
CloseWin(w) == IF w = "open" THEN "closing" ELSE w

\* The running pip closes (or fails to start): the next attempt is started,
\* or the progress window is closed.
PipClosed ==
  /\ ~appQuit
  /\ startPc = "pip"
  /\ Last(pipLog).result = "running"
  /\ \E success \in BOOLEAN, marker \in BOOLEAN :
       /\ success => ~marker
       /\ LET proc == Closed(Last(pipLog), success, marker)
              done == Front(pipLog) \o <<proc>>
          IN IF NextFlags(proc) # NoMore
               THEN /\ pipLog' = Append(done, runPip(NextFlags(proc)))
                    /\ Awaiting("pip")
                    /\ UNCHANGED progressWin
               ELSE /\ pipLog' = done
                    /\ progressWin' = CloseWin(progressWin)
                    /\ Awaiting("progressClosed")
  /\ UNCHANGED <<locEnv, found, checkOutput, pipNames, brewLog, cairoWin,
                 dialogs, createdWindows, cairoOutcome, cairoEnv>>
  /\ UNCHANGED <<platform, appQuit>>
  /\ NoBridgeTraffic

\* ensureDependencies after progressWin.close().
AfterProgressClose ==
  /\ ~appQuit
  /\ startPc = "progressClosed"
  /\ IF Last(pipLog).result # "ok"
       THEN /\ ReturnDeps(DepsFailed,
                          dialogs \cup {"Dependency Installation Failed"},
                          createdWindows)
            /\ UNCHANGED <<cairoWin, brewLog, cairoOutcome, cairoEnv>>
     ELSE IF platform = "darwin" /\ "cairosvg" \in Range(pipNames)
       THEN EnsureCairoMac(found.pair.pythonCmd, dialogs, createdWindows)
       ELSE /\ ReturnDeps(DepsOk(found.pair.pythonCmd), dialogs,
                          createdWindows)
            /\ UNCHANGED <<cairoWin, brewLog, cairoOutcome, cairoEnv>>
  /\ UNCHANGED <<locEnv, found, checkOutput, pipNames, pipLog, progressWin>>
  /\ UNCHANGED <<platform, appQuit>>
  /\ NoBridgeTraffic

\* The 500 ms timer fires: spawn(brewPath, ["install", "cairo"]).
CairoPainted ==
  /\ ~appQuit
  /\ startPc = "cairoPaint"
  /\ brewLog' = <<Spawned(cairoEnv.brewPath, <<"install", "cairo">>)>>
  /\ Awaiting("cairoInstall")
  /\ UNCHANGED <<locEnv, found, checkOutput, pipNames, pipLog, progressWin,
                 cairoWin, dialogs, createdWindows, cairoOutcome, cairoEnv>>
  /\ UNCHANGED <<platform, appQuit>>
  /\ NoBridgeTraffic

\* brew closes (or fails to start): cairoWin.close().
CairoInstallClosed ==
  /\ ~appQuit
  /\ startPc = "cairoInstall"
  /\ Last(brewLog).result = "running"
  /\ \E installed \in BOOLEAN :
       /\ brewLog' = <<Closed(Last(brewLog), installed, FALSE)>>
       /\ cairoOutcome' = IF installed THEN "installed" ELSE "failed"
  /\ UNCHANGED cairoEnv
  /\ cairoWin' = CloseWin(cairoWin)
  /\ Awaiting("cairoClosed")
  /\ UNCHANGED <<locEnv, found, checkOutput, pipNames, pipLog, progressWin,
                 dialogs, createdWindows>>
  /\ UNCHANGED <<platform, appQuit>>
  /\ NoBridgeTraffic

\* ensureCairoMac after cairoWin.close(), and the return of
\* ensureDependencies.
AfterCairoClose ==
  /\ ~appQuit
  /\ startPc = "cairoClosed"
  /\ LET installed == cairoOutcome = "installed"
     IN ReturnDeps(DepsAfterCairo(installed, found.pair.pythonCmd),
                   IF installed THEN dialogs
                   ELSE dialogs \cup {"libcairo Installation Failed"},
                   createdWindows)
  /\ UNCHANGED <<locEnv, found, checkOutput, pipNames, pipLog, brewLog,
                 progressWin, cairoWin, cairoOutcome, cairoEnv>>
  /\ UNCHANGED <<platform, appQuit>>
  /\ NoBridgeTraffic

\* The steps of the startup code.
StartupStep ==
  \/ BeginStartup
  \/ PipPainted
  \/ PipClosed
  \/ AfterProgressClose
  \/ CairoPainted
  \/ CairoInstallClosed
  \/ AfterCairoClose

\* A spawned pip or brew never ends on its own.
CommandHangs ==
  /\ ~appQuit
  /\ \/ /\ startPc = "pip"
        /\ Last(pipLog).result = "running"
        /\ pipLog' = Front(pipLog) \o <<[Last(pipLog) EXCEPT !.result = "hung"]>>
        /\ UNCHANGED brewLog
     \/ /\ startPc = "cairoInstall"
        /\ Last(brewLog).result = "running"
        /\ brewLog' = <<[Last(brewLog) EXCEPT !.result = "hung"]>>
        /\ UNCHANGED pipLog
  /\ UNCHANGED <<startPc, locEnv, found, checkOutput, pipNames, progressWin,
                 cairoWin, dialogs, depsResult, createdWindows, cairoOutcome, cairoEnv>>
  /\ UNCHANGED <<bridgeProcess, workerState, stdinWritable>>
  /\ UNCHANGED appVars
  /\ NoBridgeTraffic

\* The pip progress window is gone: the user closed it, or close() has taken
\* effect.  If it was the last window, window-all-closed is emitted.
ProgressWinClosed ==
  /\ ~appQuit
  /\ progressWin \in {"open", "closing"}
  /\ progressWin' = "closed"
  /\ IF NoOtherWindow("progress") /\ ~quitting
       THEN WindowAllClosedHandler
       ELSE UNCHANGED <<bridgeProcess, workerState, quitting>>
  /\ UNCHANGED <<startPc, locEnv, found, checkOutput, pipNames, pipLog, brewLog,
                 cairoWin, dialogs, depsResult, createdWindows, cairoOutcome, cairoEnv>>
  /\ UNCHANGED <<platform, appQuit, mainWindow, stdinWritable>>
  /\ NoBridgeTraffic

\* The same for the brew progress window.
CairoWinClosed ==
  /\ ~appQuit
  /\ cairoWin \in {"open", "closing"}
  /\ cairoWin' = "closed"
  /\ IF NoOtherWindow("cairo") /\ ~quitting
       THEN WindowAllClosedHandler
       ELSE UNCHANGED <<bridgeProcess, workerState, quitting>>
  /\ UNCHANGED <<startPc, locEnv, found, checkOutput, pipNames, pipLog, brewLog,
                 progressWin, dialogs, depsResult, createdWindows, cairoOutcome, cairoEnv>>
  /\ UNCHANGED <<platform, appQuit, mainWindow, stdinWritable>>
  /\ NoBridgeTraffic

\* The user quits the application: app.on("before-quit").
BeforeQuit ==
  /\ ~appQuit
  /\ ~quitting
  /\ quitting' = TRUE
  /\ KillBridge
  /\ UNCHANGED <<platform, appQuit, mainWindow, stdinWritable>>
  /\ UNCHANGED startVars
  /\ NoBridgeTraffic

\* bridgeProcess.on("error"): the worker could not be started.
OnSpawnError ==
  /\ ~appQuit
  /\ workerState = "running"
  /\ bridgeProcess # "null"
  /\ workerState' = "exited"
  /\ dialogs' = dialogs \cup {"Backend Error"}
  /\ UNCHANGED <<startPc, locEnv, found, checkOutput, pipNames, pipLog, brewLog,
                 progressWin, cairoWin, depsResult, createdWindows, cairoOutcome, cairoEnv>>
  /\ UNCHANGED <<bridgeProcess, stdinWritable>>
  /\ UNCHANGED appVars
  /\ NoBridgeTraffic

\* The environments of discovery that startup is run in: no interpreter at
\* all; the first candidate with pip; no candidate with pip but a pip binary.
NothingInstalled(plat) ==
  [py |-> [c \in Range(PythonCandidates(plat)) |->
             PyAnswer("fail", FALSE, FALSE, FALSE)],
   pip |-> [c \in Range(PipCandidates(plat)) |->
              PipAnswer(FALSE, FALSE, FALSE, "fail")]]

StartupEnvs(plat) ==
  {NothingInstalled(plat),
   [NothingInstalled(plat) EXCEPT
      !.py[PythonCandidates(plat)[1]] = PyAnswer("3", TRUE, FALSE, FALSE)],
   [NothingInstalled(plat) EXCEPT
      !.py[PythonCandidates(plat)[1]] = PyAnswer("3", FALSE, FALSE, FALSE),
      !.pip[PipCandidates(plat)[1]] = PipAnswer(TRUE, TRUE, FALSE, "fail")]}

InitStartup ==
  /\ platform \in {"darwin", "linux"}
  /\ locEnv \in StartupEnvs(platform)
  /\ appQuit = FALSE
  /\ mainWindow = FALSE
  /\ bridgeProcess = "null"
  /\ bridgeReady = FALSE
  /\ pendingRequests = <<>>
  /\ requestQueue = <<>>
  /\ currentRequest = 0
  /\ buffer = <<>>
  /\ workerState = "none"
  /\ stdinWritable = FALSE
  /\ stdoutPipe = <<>>
  /\ written = <<>>
  /\ workerRead = 0
  /\ emitted = 0
  /\ conforms = TRUE
  /\ reply = [r \in ReqIds |-> NoMsg]
  /\ outcome = [r \in ReqIds |-> Pending]
  /\ settleCalls = [r \in ReqIds |-> 0]
  /\ nextId = 1
  /\ sentStopped = {}
  /\ readySeen = FALSE
  /\ consumed = <<>>
  /\ parsedLog = <<>>
  /\ splitSeen = FALSE
  /\ quitting = FALSE
  /\ startPc = "init"
  /\ found = [pair |-> NoPair, ran |-> <<>>]
  /\ checkOutput = [threw |-> FALSE, text |-> <<>>]
  /\ pipNames = <<>>
  /\ pipLog = <<>>
  /\ brewLog = <<>>
  /\ progressWin = "none"
  /\ cairoWin = "none"
  /\ dialogs = {}
  /\ depsResult = NoResult
  /\ createdWindows = {}
  /\ cairoOutcome = "notrun"
  /\ cairoEnv = NoCairoEnv

NextStartup ==
  \/ BeginStartup
  \/ PipPainted
  \/ PipClosed
  \/ AfterProgressClose
  \/ CairoPainted
  \/ CairoInstallClosed
  \/ AfterCairoClose
  \/ CommandHangs
  \/ ProgressWinClosed
  \/ CairoWinClosed
  \/ BeforeQuit
  \/ AppExit
  \/ WindowAllClosed
  \/ Activate
  \/ OnSpawnError
  \/ WorkerExit
  \/ OnExit

SpecStartup == InitStartup /\ [][NextStartup]_vars

\* ================================================================ claims
Unsettled(r) == outcome[r].st = "pending"
Submitted == 1..(nextId - 1)

\* C1: at most one written command is unsettled: every command written to the
\* worker's stdin except the last is settled, and an unsettled written command
\* is the one held in currentRequest.
C1_AtMostOneInFlight ==
  \A i \in 1..Len(written) :
    Unsettled(written[i]) => (i = Len(written) /\ currentRequest = written[i])

\* A second command has been written while the first is settled and the
\* second is in flight.
C1_Witness ==
  /\ Len(written) >= 2
  /\ ~Unsettled(written[1])
  /\ currentRequest = written[Len(written)]
  /\ Unsettled(currentRequest)

\* C2: the commands are written to the worker's stdin in submission order and
\* none is skipped: the i-th command written is the i-th request submitted.
C2_FifoDispatch == \A i \in 1..Len(written) : written[i] = i

\* Three requests have been submitted and written, the first two answered.
C2_Witness ==
  /\ written = <<1, 2, 3>>
  /\ ~Unsettled(1) /\ ~Unsettled(2)
  /\ currentRequest = 3

\* C3 (as claimed): the exit handler rejects every submitted request that is
\* not yet settled and leaves every queue empty, the prelaunch buffer included.
C3_ExitFailsEveryOutstanding ==
  [][OnExit => /\ \A r \in Submitted : outcome'[r].st # "pending"
               /\ pendingRequests' = <<>>
               /\ requestQueue' = <<>>
               /\ currentRequest' = 0]_vars

\* C4 (as claimed): a request submitted after the exit handler has run is
\* rejected.  Once the exit handler has run and the worker's stdout is drained,
\* no handler that settles a promise can run again, so a request still pending
\* in such a state stays pending forever.
C4_StoppedSendRejected ==
  (workerState = "reaped" /\ stdoutPipe = <<>>) =>
    \A r \in sentStopped : outcome[r].st = "rejected"

\* C5: when the exit handler runs with a request in flight, that request and
\* every request on requestQueue are rejected with "Bridge exited", and
\* afterwards currentRequest is null, requestQueue is empty and bridgeReady is
\* false.
C5_CrashPropagation ==
  [][(OnExit /\ currentRequest # 0) =>
       /\ \A r \in {currentRequest} \cup Range(requestQueue) :
            outcome[r].st = "pending" /\ outcome'[r] = Rejected("Bridge exited")
       /\ currentRequest' = 0
       /\ Len(requestQueue') = 0
       /\ bridgeReady' = FALSE]_vars

\* The worker exited with request 1 in flight and requests 2 and 3 queued.
C5_Witness ==
  /\ workerState = "reaped"
  /\ written = <<1>>
  /\ \A r \in 1..3 : outcome[r] = Rejected("Bridge exited")

\* C6: no command is written before a {status: "ready"} line has been
\* consumed, and sendToBridge called while bridgeReady is false only appends the
\* request to pendingRequests, its promise pending.
C6_NoDispatchBeforeReady ==
  /\ [](Len(written) > 0 => readySeen)
  /\ [][(Send /\ ~bridgeReady) =>
          /\ pendingRequests' = Append(pendingRequests, nextId)
          /\ outcome'[nextId].st = "pending"
          /\ UNCHANGED <<requestQueue, currentRequest, written, outcome,
                         settleCalls>>]_vars

\* Two requests wait in the prelaunch buffer before any readiness line.
C6_Witness ==
  /\ ~readySeen
  /\ pendingRequests = <<1, 2>>
  /\ stdoutPipe # <<>>

\* C7: while the worker keeps to the protocol, a written request is pending,
\* or was rejected by the worker's exit, or is settled with exactly the message
\* the worker produced for its own command: resolved when that message's ok is
\* not false, rejected otherwise.
C7_PositionalCorrelation ==
  conforms =>
    \A i \in 1..Len(written) :
      LET r == written[i]
      IN \/ outcome[r].st = "pending"
         \/ outcome[r] = Rejected("Bridge exited")
         \/ /\ outcome[r].msg = reply[r]
            /\ reply[r].re = r
            /\ (outcome[r].st = "resolved") = (reply[r].ok # "false")

\* Under a conforming worker one request was resolved and the next rejected,
\* each by its own reply.
C7_Witness ==
  /\ conforms
  /\ outcome[1].st = "resolved" /\ outcome[1].msg.re = 1
  /\ outcome[2].st = "rejected" /\ outcome[2].msg.re = 2

\* The complete lines that a data event delivering the first n characters of
\* stdoutPipe hands to the loop of the stdout handler.
ChunkLines(n) == FrameLines(buffer, SubSeq(stdoutPipe, 1, n))

NonBlank(line) == \E i \in 1..Len(line) : line[i] # SP
Unparsable(line) == NonBlank(line) /\ JSONparse(line).threw

\* A data event that completes exactly one line, which is not valid JSON.
ParseFailureStep(n) ==
  /\ Len(stdoutPipe') = Len(stdoutPipe) - n
  /\ Len(ChunkLines(n)) = 1
  /\ Unparsable(ChunkLines(n)[1])
  /\ OnStdoutData(n)

\* The dispatcher took the head of requestQueue and wrote it to the worker, or
\* stayed idle on an empty queue.
AdvancedByWrite ==
  IF requestQueue = <<>>
    THEN currentRequest' = 0 /\ requestQueue' = <<>> /\ written' = written
    ELSE /\ currentRequest' = Head(requestQueue)
         /\ requestQueue' = Tail(requestQueue)
         /\ written' = Append(written, Head(requestQueue))

\* With no worker to write to, advancing rejected the whole queue.
AdvancedByRejecting ==
  /\ currentRequest' = 0
  /\ requestQueue' = <<>>
  /\ written' = written
  /\ \A r \in Range(requestQueue) : outcome'[r] = Rejected("Bridge not running")

\* C8 (as claimed): a line that is not valid JSON rejects exactly the request
\* in flight, rejects and reorders no queued request, and the dispatcher
\* advances to the next queued request; with no request in flight it changes no
\* request state.
C8_ParseFailureIsolation ==
  [][\A n \in 1..Len(stdoutPipe) :
       ParseFailureStep(n) =>
         IF currentRequest # 0
           THEN /\ outcome'[currentRequest].st = "rejected"
                /\ \A r \in ReqIds \ {currentRequest} : outcome'[r] = outcome[r]
                /\ pendingRequests' = pendingRequests
                /\ AdvancedByWrite
           ELSE UNCHANGED dispVars]_vars

\* C8 (amended): a line that is not valid JSON rejects the request in flight
\* with the parse error.  While the worker handle is set and its stdin is
\* writable, no other request is rejected or reordered and the head of the
\* queue is written; otherwise advancing rejects every queued request with
\* "Bridge not running".  A later line of the same chunk is still processed.
\* With no request in flight the failure changes no request state.
C8_ParseFailureIsolationRunning ==
  [][\A n \in 1..Len(stdoutPipe) :
       /\ ParseFailureStep(n) =>
            IF currentRequest # 0
              THEN /\ outcome'[currentRequest] = Rejected("SyntaxError")
                   /\ pendingRequests' = pendingRequests
                   /\ IF BridgeRunning
                        THEN /\ \A r \in ReqIds \ {currentRequest} :
                                  outcome'[r] = outcome[r]
                             /\ AdvancedByWrite
                        ELSE /\ \A r \in ReqIds \ ({currentRequest} \cup Range(requestQueue)) :
                                  outcome'[r] = outcome[r]
                             /\ AdvancedByRejecting
              ELSE UNCHANGED dispVars
       /\ ( /\ Len(stdoutPipe') = Len(stdoutPipe) - n
            /\ currentRequest # 0 /\ requestQueue # <<>> /\ BridgeRunning
            /\ Len(ChunkLines(n)) = 2
            /\ Unparsable(ChunkLines(n)[1])
            /\ NonBlank(ChunkLines(n)[2])
            /\ ~JSONparse(ChunkLines(n)[2]).threw
            /\ JSONparse(ChunkLines(n)[2]).value.status # "ready"
            /\ OnStdoutData(n) )
          => /\ outcome'[currentRequest] = Rejected("SyntaxError")
             /\ outcome'[Head(requestQueue)].st # "pending"]_vars

\* A parse failure rejected request 1, request 2 was written next and a later
\* line settled it.
C8_Witness ==
  /\ outcome[1] = Rejected("SyntaxError")
  /\ written = <<1, 2>>
  /\ outcome[2].st = "resolved"

\* A data event that completes exactly one line, a response with ok === false,
\* while a request is in flight.
CommandErrorStep(n) ==
  /\ Len(stdoutPipe') = Len(stdoutPipe) - n
  /\ currentRequest # 0
  /\ Len(ChunkLines(n)) = 1
  /\ NonBlank(ChunkLines(n)[1])
  /\ ~JSONparse(ChunkLines(n)[1]).threw
  /\ JSONparse(ChunkLines(n)[1]).value.status # "ready"
  /\ JSONparse(ChunkLines(n)[1]).value.ok = "false"
  /\ OnStdoutData(n)

\* C10 (as claimed): a response with ok === false rejects the request in
\* flight with exactly the error text the worker provided, clears the in-flight
\* slot and writes the next queued request, if any.
C10_CommandErrorVerbatim ==
  [][\A n \in 1..Len(stdoutPipe) :
       CommandErrorStep(n) =>
         LET m == JSONparse(ChunkLines(n)[1]).value
         IN /\ outcome'[currentRequest].st = "rejected"
            /\ m.error # NoText => outcome'[currentRequest].err = m.error
            /\ AdvancedByWrite]_vars

\* C10 (amended): a response with ok === false rejects the request in flight
\* with the worker's error text when that text is not empty and with "Bridge
\* error" when it is empty or absent; the in-flight slot is cleared and, while
\* the worker handle is set and its stdin writable, the next queued request is
\* written; otherwise every queued request is rejected with "Bridge not
\* running".
C10_CommandErrorText ==
  [][\A n \in 1..Len(stdoutPipe) :
       CommandErrorStep(n) =>
         LET m == JSONparse(ChunkLines(n)[1]).value
         IN /\ outcome'[currentRequest].st = "rejected"
            /\ outcome'[currentRequest].err =
                 IF m.error = NoText \/ m.error = "" THEN "Bridge error"
                 ELSE m.error
            /\ IF BridgeRunning THEN AdvancedByWrite ELSE AdvancedByRejecting]_vars

\* Request 1 was rejected with the worker's text and request 2 written next.
C10_Witness ==
  /\ outcome[1].st = "rejected"
  /\ outcome[1].err = "boom"
  /\ outcome[1].msg = FailureMsg(1, "boom")
  /\ written = <<1, 2>>
  /\ currentRequest = 2

\* ------------------------------------------------ C9, under SpecFramer
NLpos(text) == {i \in 1..Len(text) : text[i] = NL}

\* The text between the k-th newline of the text and the one before it.
TerminatedLine(text, k) ==
  LET end == CHOOSE i \in NLpos(text) :
               Cardinality({j \in NLpos(text) : j <= i}) = k
      before == {j \in NLpos(text) : j < end}
      start == IF before = {} THEN 1
               ELSE (CHOOSE j \in before : \A x \in before : x <= j) + 1
  IN SubSeq(text, start, end - 1)

\* What a single data event carrying the whole text would hand to JSON.parse,
\* and what it would hold back.
WholeTextLines(text) ==
  SelectSeq([k \in 1..Cardinality(NLpos(text)) |-> TerminatedLine(text, k)],
            NonBlank)
WholeTextTail(text) ==
  LET nls == NLpos(text)
      last == IF nls = {} THEN 0 ELSE CHOOSE j \in nls : \A x \in nls : x <= j
  IN SubSeq(text, last + 1, Len(text))

FullyValid(cmd) ==
  /\ locEnv.py[cmd].version = "3"
  /\ locEnv.py[cmd].pip

FirstFullyValid ==
  LET cands == PythonCandidates(platform)
  IN CHOOSE i \in 1..Len(cands) :
       /\ FullyValid(cands[i])
       /\ \A k \in 1..(i - 1) : ~FullyValid(cands[k])

StandaloneLookup(r) == r.cmd = "which" \/ r.cmd \in {"/usr/bin/pip3", "/usr/bin/pip"}
Bootstrap(r) == r.args = <<"-m", "ensurepip", "--upgrade">>

\* C19: when some candidate passes both the version check and the "-m pip"
\* check, findPythonAndPip returns the earliest such candidate of the
\* platform's list, paired with "<candidate> -m pip", and has run no
\* which/where lookup, no pip binary and no ensurepip.
C19_Pass1ShortCircuit ==
  (/\ startPc = "located"
   /\ \E c \in Range(PythonCandidates(platform)) : FullyValid(c))
  => LET first == PythonCandidates(platform)[FirstFullyValid]
     IN /\ found.pair = Pair(first, first, <<"-m", "pip">>)
        /\ \A i \in 1..Len(found.ran) :
             ~StandaloneLookup(found.ran[i]) /\ ~Bootstrap(found.ran[i])

\* The first candidate reports Python 3 but has no pip and could be
\* bootstrapped, a working pip binary is on the path, and a later candidate
\* is fully valid.
C19_Witness ==
  /\ startPc = "located"
  /\ platform = "linux"
  /\ locEnv.py["python3"] = PyAnswer("3", FALSE, TRUE, TRUE)
  /\ locEnv.py["python"] = PyAnswer("2", FALSE, FALSE, FALSE)
  /\ FullyValid("/usr/bin/python3")
  /\ locEnv.pip["pip3"] = PipAnswer(TRUE, TRUE, TRUE, "3")
  /\ found.pair.pythonCmd = "/usr/bin/python3"

\* ------------------------------------------------------------- startup
WorkerAlive == workerState = "running"

\* C11: in no reachable state has the application quit while the worker it
\* spawned is alive and was never sent a kill.
C11_NoOrphanedWorker == ~(appQuit /\ WorkerAlive)

\* C12: startup never hangs on an external command: as long as the
\* application runs and startup has reached neither the spawn of the worker
\* nor the report of a fatal failure, a step of the startup code can be taken,
\* also when a command it started never ends on its own.
C12_StartupNeverHangs ==
  (~appQuit /\ startPc # "done") => ENABLED StartupStep

ErrorDialogs == {"Python / pip Not Found", "Dependency Installation Failed"}

\* C13: when findPythonAndPip returns no pair, or every install attempt
\* fails, an error dialog has been shown, quit has been requested, the worker
\* is never spawned and the main window is never created.
C13_StartupFailureIsFatal ==
  depsResult = DepsFailed
  => /\ dialogs \cap ErrorDialogs # {}
     /\ quitting
     /\ workerState = "none"
     /\ "main" \notin createdWindows

Attempts(flags) == {i \in 1..Len(pipLog) : FlagsOf(pipLog[i]) = flags}
MarkerFailure(proc) == proc.result = "fail" /\ proc.marker

\* C14: when the plain install has failed with the externally-managed marker
\* in its error text, the next install carries --break-system-packages and is
\* the only one that does; a --user install is made only after that override
\* install, and only once the override install has failed.
C14_EscalationOrder ==
  (pipLog # <<>> /\ MarkerFailure(pipLog[1]))
  => /\ Len(pipLog) >= 2
     /\ Attempts(BreakFlags) = {2}
     /\ \A i \in Attempts(UserFlags) : i = 3 /\ pipLog[2].result = "fail"

\* The plain install fails with the marker, the override install fails, the
\* --user install is running.
C14_Witness ==
  /\ Len(pipLog) = 3
  /\ MarkerFailure(pipLog[1])
  /\ FlagsOf(pipLog[2]) = BreakFlags
  /\ pipLog[2].result = "fail"
  /\ FlagsOf(pipLog[3]) = UserFlags
  /\ pipLog[3].result = "running"

\* C15: in one provisioning run (a Python/pip pair was found) pip install is
\* invoked at most three times and with each of the three flag sets at most
\* once; a successful attempt is the last one and ensureDependencies then
\* returns ok: true; the override attempt directly follows a failure with the
\* marker; ok: false is returned only after the --user attempt has failed.
C15_BoundedAttempts ==
  /\ Len(pipLog) <= 3
  /\ \A i, j \in 1..Len(pipLog) : FlagsOf(pipLog[i]) = FlagsOf(pipLog[j]) => i = j
  /\ \A i \in 1..Len(pipLog) :
       pipLog[i].result = "ok"
       => i = Len(pipLog) /\ (depsResult.returned => depsResult.ok)
  /\ \A i \in Attempts(BreakFlags) : i > 1 /\ MarkerFailure(pipLog[i - 1])
  /\ (depsResult = DepsFailed /\ found.pair # NoPair)
     => /\ pipLog # <<>>
        /\ FlagsOf(Last(pipLog)) = UserFlags
        /\ Last(pipLog).result = "fail"

\* All three installs have failed and ensureDependencies has returned
\* ok: false.
C15_Witness ==
  /\ Len(pipLog) = 3
  /\ \A i \in 1..3 : pipLog[i].result = "fail"
  /\ depsResult = DepsFailed

\* The probe ran to its end and tagged every required package "ok".
AllPresent ==
  /\ startPc # "init"
  /\ found.pair # NoPair
  /\ ~checkOutput.threw
  /\ \A i \in 1..Len(checkOutput.text) : checkOutput.text[i].tag = "ok"

\* C16 as stated: when the probe output has no miss line,
\* ensureDependencies returns ok: true and no install command at all is
\* invoked during the run.
C16_NoInstallWhenAllPresent ==
  AllPresent
  => /\ depsResult.returned => depsResult = DepsOk(found.pair.pythonCmd)
     /\ pipLog = <<>>
     /\ brewLog = <<>>

\* C16, amended: when the probe output has no miss line, ensureDependencies
\* returns ok: true and pip install is never invoked; the only install that
\* can run is "brew install cairo", on macOS and after the user agreed to it.
C16_NoPipInstallWhenAllPresent ==
  AllPresent
  => /\ depsResult.returned => depsResult = DepsOk(found.pair.pythonCmd)
     /\ pipLog = <<>>
     /\ progressWin = "none"
     /\ brewLog # <<>>
          => /\ platform = "darwin"
             /\ "Install libcairo for PNG/JPG Export?" \in dialogs

\* Nothing is missing, the user agreed, brew install cairo ran, and
\* ensureDependencies returned.
C16_Witness ==
  /\ AllPresent
  /\ brewLog # <<>>
  /\ brewLog[1].result = "ok"
  /\ depsResult.returned

\* The pip names of the packages whose probe line is "miss:<importName>", in
\* the order of REQUIRED_PACKAGES.
ExpectedNames ==
  LET tagged == SelectSeq(REQUIRED_PACKAGES,
                          LAMBDA p : \E i \in 1..Len(checkOutput.text) :
                            /\ checkOutput.text[i].tag = "miss"
                            /\ checkOutput.text[i].name = p.importName)
  IN [i \in 1..Len(tagged) |-> tagged[i].pipName]

AllSixNames ==
  <<"opencv-python-headless", "numpy", "scikit-image", "Pillow", "cairosvg",
    "shapely">>

\* The arguments of a pip invocation after "install --quiet" and the flags.
InstallIdentifiers(proc) ==
  SubSeq(proc.args,
         Len(found.pair.pipArgs) + 2 + Len(FlagsOf(proc)) + 1, Len(proc.args))

\* C17: every pip install invocation is passed exactly the pip names of the
\* packages the probe tagged "miss", in the order of REQUIRED_PACKAGES; when
\* the probe script itself failed these are all six pip names.
C17_MissingSet ==
  \A i \in 1..Len(pipLog) :
    /\ InstallIdentifiers(pipLog[i]) = ExpectedNames
    /\ checkOutput.threw => InstallIdentifiers(pipLog[i]) = AllSixNames

\* cv2 and PIL are tagged "miss" and a pip install was started.
C17_Witness ==
  /\ pipLog # <<>>
  /\ ~checkOutput.threw
  /\ InstallIdentifiers(pipLog[1]) = <<"opencv-python-headless", "Pillow">>

CairoOutcomes == {"present", "nobrew", "declined", "installed", "failed"}
CairoPcs == {"cairoPaint", "cairoInstall", "cairoClosed"}

\* A step of ensureCairoMac, or the closing of its progress window.
CairoStep ==
  \/ cairoOutcome' # cairoOutcome
  \/ startPc \in CairoPcs /\ startPc' # startPc
  \/ cairoWin' # cairoWin

\* C18: however ensureCairoMac ends, ensureDependencies returns ok: true with
\* the Python command that was found, and no step of ensureCairoMac (nor the
\* closing of its window) requests quit.
C18_NativeStepNeverFatal ==
  [][/\ (depsResult'.returned /\ cairoOutcome' \in CairoOutcomes)
        => depsResult' = DepsOk(found'.pair.pythonCmd)
     /\ CairoStep => quitting' = quitting]_vars

\* brew install cairo failed and ensureDependencies returned.
C18_Witness ==
  /\ cairoOutcome = "failed"
  /\ "libcairo Installation Failed" \in dialogs
  /\ depsResult.returned

\* C20: whenever the exit handler of the spawned worker runs, a
\* backend-error dialog is shown, and quit is not requested by it.
C20_WorkerExitSurfaced ==
  [][(workerState = "exited" /\ workerState' = "reaped")
       => "Backend Error" \in dialogs' /\ quitting' = quitting]_vars

\* ------------------------------------------------------ claims C21..C30
\* A worker process is spawned in this step.
WorkerSpawned == bridgeProcess' \notin {"null", bridgeProcess}

SpawnInOrder ==
  WorkerSpawned
  => /\ workerState = "none"
     /\ depsResult'.returned /\ depsResult'.ok
     /\ bridgeProcess' = depsResult'.pythonCmd

NothingAfterExit ==
  workerState = "reaped" => (~WorkerSpawned /\ written' = written)

BlankLine(line) == ~NonBlank(line)

\* A line that parses to an object other than the ready announcement.
ResponseLine(line) ==
  /\ ~JSONparse(line).threw
  /\ JSONparse(line).value.status # "ready"

\* A data event all of whose complete lines are blank, or are response lines
\* arriving while no request is in flight.
InertStdoutStep(n) ==
  /\ Len(stdoutPipe') = Len(stdoutPipe) - n
  /\ ChunkLines(n) # <<>>
  /\ \A i \in 1..Len(ChunkLines(n)) :
       \/ BlankLine(ChunkLines(n)[i])
       \/ currentRequest = 0 /\ ResponseLine(ChunkLines(n)[i])
  /\ OnStdoutData(n)

RequestStateUnchanged ==
  UNCHANGED <<bridgeReady, pendingRequests, requestQueue, currentRequest,
              outcome, settleCalls>>

InertInputIsInert ==
  /\ OnStderrData => RequestStateUnchanged
  /\ \A n \in 1..Len(stdoutPipe) : InertStdoutStep(n) => RequestStateUnchanged

\* C22: stderr data and blank or whitespace-only stdout lines settle no promise
\* and leave bridgeReady, pendingRequests, requestQueue and currentRequest as
\* they were, also while a request is in flight; so does a well-formed response
\* line that arrives while no request is in flight.
C22_NonProtocolInputInert == [][InertInputIsInert]_vars

\* A request is in flight and unsettled, the worker has answered nothing, and
\* everything it wrote besides the ready line (stderr output or blank lines, all
\* within the protocol) has been consumed.
C22_Witness ==
  /\ currentRequest # 0
  /\ outcome[currentRequest] = Pending
  /\ workerRead = 0
  /\ conforms
  /\ emitted = MaxLines
  /\ stdoutPipe = <<>>
  /\ buffer = <<>>

\* C23: between event handlers a request waits in requestQueue only while
\* another request is in flight, and a request waits in pendingRequests only
\* while bridgeReady is false: the dispatcher is never idle and ready with work
\* queued.
C23_NoIdleWaiting ==
  /\ requestQueue # <<>> => currentRequest # 0
  /\ pendingRequests # <<>> => ~bridgeReady

\* A request waits in requestQueue behind the one in flight, and in another
\* state one waits in pendingRequests: here the first.
C23_Witness ==
  /\ requestQueue # <<>>
  /\ currentRequest # 0
  /\ bridgeReady
  /\ pendingRequests = <<>>

CairoDialogs == {InfoDialog, ConsentDialog, "libcairo Installation Failed"}

\* C24: brew install cairo is invoked only on macOS, only after "brew list
\* cairo" failed, brew was found and the user chose to install; where brew is
\* absent there is no consent prompt and no install, only the informational
\* dialog.
C24_InstallRequiresConsent ==
  /\ brewLog # <<>>
       => /\ platform = "darwin"
          /\ ~cairoEnv.listed
          /\ cairoEnv.brewPath # "null"
          /\ cairoEnv.choice = 0
          /\ ConsentDialog \in dialogs
          /\ \A i \in 1..Len(brewLog) :
               /\ brewLog[i].cmd = cairoEnv.brewPath
               /\ brewLog[i].args = <<"install", "cairo">>
  /\ cairoEnv.brewPath = "null"
       => /\ brewLog = <<>>
          /\ dialogs \cap CairoDialogs = {InfoDialog}

\* The user chose to install and brew install cairo was started.
C24_Witness ==
  /\ brewLog # <<>>
  /\ cairoEnv.choice = 0
  /\ cairoOutcome = "installed"


\* What the environment lets each pass find.
Pass2Finds ==
  \E p \in Range(PipCandidates(platform)) :
    /\ locEnv.pip[p].which
    /\ locEnv.pip[p].works
    /\ \/ locEnv.pip[p].derived /\ locEnv.pip[p].version = "3"
       \/ \E c \in Range(PythonCandidates(platform)) : locEnv.py[c].version = "3"

EarlierPassFinds ==
  \/ \E c \in Range(PythonCandidates(platform)) : FullyValid(c)
  \/ Pass2Finds

Bootstrappable(cmd) ==
  /\ locEnv.py[cmd].version = "3"
  /\ locEnv.py[cmd].ensurepip
  /\ locEnv.py[cmd].pipAfter

CandIndex(cmd) ==
  CHOOSE k \in 1..Len(PythonCandidates(platform)) :
    PythonCandidates(platform)[k] = cmd

BootstrapRan == \E i \in 1..Len(found.ran) : Bootstrap(found.ran[i])

\* The call ended with a successful bootstrap of cmd followed by a successful
\* "-m pip --version" of cmd.
EndsWithBootstrapOf(cmd) ==
  /\ Len(found.ran) >= 2
  /\ found.ran[Len(found.ran) - 1] =
       Ran(cmd, <<"-m", "ensurepip", "--upgrade">>, TRUE)
  /\ found.ran[Len(found.ran)] = Ran(cmd, <<"-m", "pip", "--version">>, TRUE)

\* C25: findPythonAndPip runs ensurepip only when passes 1 and 2 produced no
\* pair, on the candidates in list order; a pair returned after a bootstrap is
\* "<candidate> -m pip" for the candidate whose bootstrap and following pip
\* check both succeeded; and it returns null only when every pass failed for
\* every candidate.
C25_BootstrapLastResort ==
  startPc = "located"
  => /\ BootstrapRan => ~EarlierPassFinds
     /\ \A i, j \in 1..Len(found.ran) :
          (i < j /\ Bootstrap(found.ran[i]) /\ Bootstrap(found.ran[j]))
            => CandIndex(found.ran[i].cmd) < CandIndex(found.ran[j].cmd)
     /\ (BootstrapRan /\ found.pair # NoPair)
          => /\ found.pair = Pair(found.pair.pythonCmd, found.pair.pythonCmd,
                                  <<"-m", "pip">>)
             /\ EndsWithBootstrapOf(found.pair.pythonCmd)
             /\ Bootstrappable(found.pair.pythonCmd)
     /\ found.pair = NoPair
          => /\ ~EarlierPassFinds
             /\ \A c \in Range(PythonCandidates(platform)) : ~Bootstrappable(c)

\* The first candidate was bootstrapped but its pip check still failed, and a
\* later candidate was bootstrapped and returned.
C25_Witness ==
  /\ startPc = "located"
  /\ found.pair # NoPair
  /\ \E i \in 1..Len(found.ran) :
       /\ Bootstrap(found.ran[i])
       /\ found.ran[i].ok
       /\ found.ran[i].cmd # found.pair.pythonCmd
  /\ EndsWithBootstrapOf(found.pair.pythonCmd)

\* The command was executed with these arguments during the call, and
\* succeeded.
RanOk(cmd, args) ==
  \E i \in 1..Len(found.ran) : found.ran[i] = Ran(cmd, args, TRUE)

\* The banner the returned runtime printed: a candidate's own, or that of the
\* interpreter derived from a pip binary.
ReportedPython3(cmd) ==
  \/ /\ cmd \in Range(PythonCandidates(platform))
     /\ locEnv.py[cmd].version = "3"
  \/ \E p \in Range(PipCandidates(platform)) :
       /\ cmd = pythonFromPip(locEnv.pip[p], resolveCommandPath(p))
       /\ locEnv.pip[p].version = "3"

\* C30: every pair findPythonAndPip returns is fully verified: the returned
\* runtime passed a version check reporting Python 3 during the call, and the
\* returned pip invocation (command plus arguments) was itself executed
\* successfully during the call, also on the branch that derives the runtime
\* from a standalone pip executable.
C30_ReturnedPairVerified ==
  (startPc = "located" /\ found.pair # NoPair)
  => /\ RanOk(found.pair.pythonCmd, <<"--version">>)
     /\ ReportedPython3(found.pair.pythonCmd)
     /\ RanOk(found.pair.pipCmd, found.pair.pipArgs \o <<"--version">>)

\* The pip progress window, closed by ensureDependencies after a successful
\* install, goes away while no other window is open.
ProgressClosedAfterSuccess ==
  /\ progressWin = "closing"
  /\ progressWin' = "closed"
  /\ pipLog # <<>>
  /\ Last(pipLog).result = "ok"
  /\ NoOtherWindow("progress")

\* C28: when a package install succeeded, the window-all-closed event raised by
\* the closing of the progress window neither requests quit nor kills the
\* worker, so that startup goes on to the spawn and the main window.
C28_ProgressCloseHarmless ==
  [][ProgressClosedAfterSuccess
       => (quitting' = quitting /\ bridgeProcess' = bridgeProcess
           /\ workerState' = workerState)]_vars

\* How many of the four places hold request r: the positions of pendingRequests
\* and of requestQueue, the in-flight slot, and being settled.
Occurrences(q, r) == Cardinality({i \in 1..Len(q) : q[i] = r})
Places(r) ==
  Occurrences(pendingRequests, r) + Occurrences(requestQueue, r)
    + (IF currentRequest = r THEN 1 ELSE 0)
    + (IF Unsettled(r) THEN 0 ELSE 1)

\* C29: every submitted request is in exactly one of pendingRequests,
\* requestQueue, currentRequest and settled; no promise has been resolved or
\* rejected more than once; and nothing that was not submitted is anywhere.
C29_RequestConservation ==
  /\ \A r \in Submitted : Places(r) = 1 /\ settleCalls[r] <= 1
  /\ \A r \in ReqIds \ Submitted : Places(r) = 0 /\ settleCalls[r] = 0

\* After the exit handler ran, one request was settled by a response, one was
\* rejected, and one sent since waits in pendingRequests.
C29_Witness ==
  /\ workerState = "reaped"
  /\ \E r \in Submitted : outcome[r].st = "resolved"
  /\ \E r \in Submitted : outcome[r].st = "rejected"
  /\ pendingRequests # <<>>

\* A data event that completes exactly one line: the worker's own response to
\* command c, which a parse failure has already rejected.
LateResponseStep(n, c) ==
  /\ Len(stdoutPipe') = Len(stdoutPipe) - n
  /\ outcome[c] = Rejected("SyntaxError")
  /\ Len(ChunkLines(n)) = 1
  /\ ~JSONparse(ChunkLines(n)[1]).threw
  /\ JSONparse(ChunkLines(n)[1]).value = reply[c]
  /\ reply[c].re = c
  /\ OnStdoutData(n)

\* The command in flight has been written and the worker has not answered it.
Unanswered == currentRequest # 0 /\ workerRead < Len(written)

CorrelationKept ==
  \A n \in 1..Len(stdoutPipe) :
    /\ (Unanswered /\ ParseFailureStep(n)) => written' = written
    /\ \A c \in ReqIds :
         LateResponseStep(n, c)
           => \A r \in ReqIds \ {c} : outcome'[r] = outcome[r]

\* C27: when the worker emits an unparsable line while a command is in flight
\* and then its response to that command, the next command is not written
\* before the worker has answered the earlier one, and the response settles no
\* other request.
C27_CorrelationSurvivesParseFailure == [][CorrelationKept]_vars

\* ------------------------------------------------- a responsive worker
\* The worker of C26: it announces readiness once, answers every command
\* written to it with one complete line, writes nothing else and never exits;
\* no window is closed, so nothing kills it.
ResponsiveEmits(line) ==
  /\ ~appQuit
  /\ workerState = "running"
  /\ emitted' = emitted + 1
  /\ stdoutPipe' = stdoutPipe \o line \o <<NL>>
  /\ UNCHANGED <<bridgeProcess, workerState, stdinWritable, conforms, nextId,
                 sentStopped>>
  /\ UNCHANGED appVars
  /\ UNCHANGED frameVars
  /\ UNCHANGED dispVars
  /\ UNCHANGED startVars

ResponsiveReady ==
  /\ emitted = 0
  /\ ResponsiveEmits(Line(ReadyMsg))
  /\ UNCHANGED <<workerRead, reply>>

ResponsiveReply ==
  /\ emitted > 0
  /\ workerRead < Len(written)
  /\ \E m \in Replies(written[workerRead + 1]) :
       /\ ResponsiveEmits(Line(m))
       /\ reply' = [reply EXCEPT ![written[workerRead + 1]] = m]
  /\ workerRead' = workerRead + 1

DataEvent == \E n \in 1..Len(stdoutPipe) : OnStdoutData(n) /\ UNCHANGED logVars

NextResponsive ==
  \/ StartBridge
  \/ Send
  \/ DataEvent
  \/ ResponsiveReady
  \/ ResponsiveReply

\* Some prefix of the text waiting on the worker's stdout is delivered: the
\* steps of NextResponsive that do this are the data events, and one is
\* possible exactly when text is waiting.
DataDelivered ==
  /\ ~appQuit
  /\ workerState # "none"
  /\ \E n \in 1..Len(stdoutPipe) :
       stdoutPipe' = SubSeq(stdoutPipe, n + 1, Len(stdoutPipe))

\* The whenReady handler runs, the event loop delivers the data that is
\* waiting, and the worker does what it is assumed to do; the user is free to
\* send or not.
SpecResponsive ==
  /\ Init
  /\ [][NextResponsive]_vars
  /\ WF_vars(StartBridge)
  /\ WF_stdoutPipe(DataDelivered)
  /\ WF_vars(ResponsiveReady)
  /\ WF_vars(ResponsiveReply)

\* C26: with a worker that signals readiness, answers every command with one
\* complete line and never exits, every request submitted through
\* sendToBridge, before or after readiness, is eventually written to the
\* worker and eventually settled.
C26_ProgressUnderResponsiveWorker ==
  \A r \in ReqIds :
    (r \in Submitted) ~> (r \in Range(written) /\ ~Unsettled(r))

\* Every request has been submitted, written in submission order and settled
\* with the worker's answer to it.
C26_Witness ==
  /\ nextId = MaxReq + 1
  /\ written = [i \in 1..MaxReq |-> i]
  /\ \A r \in ReqIds : ~Unsettled(r) /\ outcome[r].msg = reply[r]

====
